---- MODULE Spec2Model ----
(***************************************************************************)
(* TSIM tree (youtrack_db/task01/src/lib.rs): a radix tree of fixed-shape  *)
(* nodes behind one RwLock, with the public operations put and get.        *)
(*                                                                         *)
(* Arrays of the source ([T; N]) are functions on 0..N-1, so that indices  *)
(* are the source's indices.  Byte slices (&[u8], Vec<u8>) are sequences.  *)
(* Option<TSIMTreeNodeChild> is a record with tag "None", "Node" or        *)
(* "Value".  A panic is a result with panic = TRUE that carries the        *)
(* memory as it is left by the writes made before the panic.               *)
(***************************************************************************)
EXTENDS Integers, Sequences, FiniteSets, TLC

(* ------------------------------ constants ------------------------------ *)

CACHE_LINE_SIZE == 128

TREE_RADIX == 16

KEY_SEGMENT_SIZE == CACHE_LINE_SIZE \div TREE_RADIX

MAX_STORED_KEY_SEGMENT_SIZE == KEY_SEGMENT_SIZE - 1

(* ------------------------------- bounds -------------------------------- *)

\* number of operations of one behaviour of Spec
MaxOps == 3

\* keys 1,2,..,n of every length n in 0..MaxShort
MaxShort == 2

\* keys 1,2,..,n of every length n in M..M+MaxOver (M = 7): the longest
\* fragment one slot stores, and keys that need more than one slot
MaxOver == 1

\* number of gets issued after the fill scenario of SpecFill
MaxFillGets == 2

\* largest count of the nodes SpecProbe builds from FragPool (the full
\* nodes, of count R, are built besides)
MaxNodeCount == 3

\* with_mapping is called with keys of every length 0..MaxChainLen
MaxChainLen == 15

\* number of puts that build the trees of SpecSteps from the empty tree
MaxStepPuts == 2

\* number of loop iterations one run of SpecSteps may take
MaxIter == 40

\* number of threads of SpecConc
MaxThreads == 2

\* number of calls (completed or in progress) of one behaviour of SpecConc
MaxConcOps == 3

(* ------------------------------- inputs -------------------------------- *)

BaseKey(n) == [i \in 1..n |-> i]

Keys ==
  {BaseKey(n) : n \in 0..MaxShort}
  \cup {BaseKey(n) : n \in MAX_STORED_KEY_SEGMENT_SIZE..(MAX_STORED_KEY_SEGMENT_SIZE + MaxOver)}
  \cup {<<2>>}

Vals == {<<10>>, <<20>>}

(* ------------------------------ byte slices ---------------------------- *)

Min(a, b) == IF a < b THEN a ELSE b

SetMin(S) == CHOOSE x \in S : \A y \in S : x <= y

\* <[u8] as Ord>::cmp: lexicographic, a proper prefix is Less
SliceCmp(a, b) ==
  LET n    == Min(Len(a), Len(b))
      diff == {i \in 1..n : a[i] # b[i]}
  IN  IF diff # {}
        THEN (IF a[SetMin(diff)] < b[SetMin(diff)] THEN "Less" ELSE "Greater")
        ELSE IF Len(a) < Len(b) THEN "Less"
        ELSE IF Len(a) > Len(b) THEN "Greater"
        ELSE "Equal"

\* key.split_at(mid): (key[..mid], key[mid..])
SplitAt(key, mid) ==
  [head |-> SubSeq(key, 1, mid), tail |-> SubSeq(key, mid + 1, Len(key))]

(* -------------------------------- nodes -------------------------------- *)

SlotIdx == 0..(TREE_RADIX - 1)

ZeroSegment == [b \in 0..(KEY_SEGMENT_SIZE - 1) |-> 0]

NoChild == [tag |-> "None"]

NodeChild(n) == [tag |-> "Node", node |-> n]

ValueChild(v) == [tag |-> "Value", value |-> v]

\* the node literal of empty(), with_mapping and pushdown_children_under_key
BlankNode(count) ==
  [key_segments   |-> [i \in SlotIdx |-> ZeroSegment],
   children       |-> [i \in SlotIdx |-> NoChild],
   children_count |-> count]

empty == BlankNode(0)

\* set_segment without the assert on key_len: the length byte is written,
\* then split_at_mut panics on a fragment longer than the buffer
set_segment_noLenAssert(node, segment_idx, key_fragment) ==
  IF ~(segment_idx < TREE_RADIX)
    THEN [panic |-> TRUE, node |-> node]
    ELSE [panic |-> ~(Len(key_fragment) <= MAX_STORED_KEY_SEGMENT_SIZE),
          node  |-> [node EXCEPT !.key_segments[segment_idx] =
                       [b \in 0..(KEY_SEGMENT_SIZE - 1) |->
                          IF b = 0 THEN Len(key_fragment) % 256
                          ELSE IF Len(key_fragment) <= MAX_STORED_KEY_SEGMENT_SIZE
                                  /\ b <= Len(key_fragment) THEN key_fragment[b]
                          ELSE @[b]]]]

\* set_segment: two asserts, then the length byte and the fragment bytes;
\* the bytes behind the fragment keep what they held
set_segment(node, segment_idx, key_fragment) ==
  IF ~(segment_idx < TREE_RADIX) \/ ~(Len(key_fragment) <= MAX_STORED_KEY_SEGMENT_SIZE)
    THEN [panic |-> TRUE, node |-> node]
    ELSE [panic |-> FALSE,
          node  |-> [node EXCEPT !.key_segments[segment_idx] =
                       [b \in 0..(KEY_SEGMENT_SIZE - 1) |->
                          IF b = 0 THEN Len(key_fragment)
                          ELSE IF b <= Len(key_fragment) THEN key_fragment[b]
                          ELSE @[b]]]]

\* stored_segment: Err(InvalidSegment) when the length byte exceeds M
stored_segment(segment) ==
  IF segment[0] > MAX_STORED_KEY_SEGMENT_SIZE
    THEN [ok |-> FALSE, seg |-> <<>>]
    ELSE [ok |-> TRUE, seg |-> [i \in 1..segment[0] |-> segment[i]]]

\* get_segment: stored_segment(..).expect(..)
get_segment(node, segment_idx) ==
  IF ~(segment_idx < TREE_RADIX)
    THEN [ok |-> FALSE, seg |-> <<>>]
    ELSE stored_segment(node.key_segments[segment_idx])

\* compare_key_segment: the key's first min(len) bytes against the fragment
compare_key_segment(segment, key) ==
  LET stored == stored_segment(segment)
      parts  == SplitAt(key, Min(Len(key), Len(stored.seg)))
  IN  IF ~stored.ok
        THEN [panic |-> TRUE, ordering |-> "Equal", remaining_key |-> key]
        ELSE [panic |-> FALSE,
              ordering |-> SliceCmp(parts.head, stored.seg),
              remaining_key |-> parts.tail]

Smallest == [tag |-> "Smallest"]

ExactMatch(i, rest) == [tag |-> "ExactMatch", idx |-> i, remaining_key |-> rest]

InDomainOf(i) == [tag |-> "InDomainOf", idx |-> i]

ResolvePanic == [tag |-> "Panic"]

\* the while loop of resolve_child with InDomainOf returned on every Greater
RECURSIVE BinarySearch_eagerDomain(_, _, _, _)
BinarySearch_eagerDomain(node, key, left_segment_idx, right_segment_idx) ==
  IF ~(left_segment_idx < right_segment_idx)
    THEN Smallest
    ELSE
      LET segment == left_segment_idx + (right_segment_idx - left_segment_idx) \div 2
          c       == compare_key_segment(node.key_segments[segment], key)
      IN  IF c.panic THEN ResolvePanic
          ELSE IF c.ordering = "Equal" THEN ExactMatch(segment, c.remaining_key)
          ELSE IF c.ordering = "Greater" THEN InDomainOf(segment)
          ELSE BinarySearch_eagerDomain(node, key, left_segment_idx, segment)

\* the while loop of resolve_child
RECURSIVE BinarySearch(_, _, _, _)
BinarySearch(node, key, left_segment_idx, right_segment_idx) ==
  IF ~(left_segment_idx < right_segment_idx)
    THEN Smallest
    ELSE
      LET segment == left_segment_idx + (right_segment_idx - left_segment_idx) \div 2
          c       == compare_key_segment(node.key_segments[segment], key)
      IN  IF c.panic THEN ResolvePanic
          ELSE IF c.ordering = "Equal" THEN ExactMatch(segment, c.remaining_key)
          ELSE IF c.ordering = "Greater" /\ left_segment_idx + 1 = right_segment_idx
            THEN InDomainOf(segment)
          ELSE IF c.ordering = "Greater"
            THEN BinarySearch(node, key, segment, right_segment_idx)
          ELSE BinarySearch(node, key, left_segment_idx, segment)

\* resolve_child that searches all the slots of the node
resolve_child_allSlots(node, key) ==
  BinarySearch(node, key, 0, TREE_RADIX)

resolve_child(node, key) ==
  IF node.children_count = 0 THEN Smallest
  ELSE IF ~(node.children_count <= TREE_RADIX) THEN ResolvePanic
  ELSE BinarySearch(node, key, 0, node.children_count)

\* slice[idx..].rotate_right(1)
RotateRightFrom(arr, idx) ==
  [j \in SlotIdx |->
     IF j < idx THEN arr[j]
     ELSE IF j = idx THEN arr[TREE_RADIX - 1]
     ELSE arr[j - 1]]

\* insert_child: assert, rotate, set_segment, store the child; children_count
\* is not assigned
insert_child(node, idx, key_fragment, child) ==
  IF ~(node.children_count < TREE_RADIX)
    THEN [panic |-> TRUE, node |-> node]
    ELSE
      LET rotated == IF idx <= node.children_count
                       THEN [node EXCEPT
                               !.children     = RotateRightFrom(@, idx),
                               !.key_segments = RotateRightFrom(@, idx)]
                       ELSE node
          seg     == set_segment(rotated, idx, key_fragment)
      IN  IF seg.panic
            THEN [panic |-> TRUE, node |-> seg.node]
            ELSE [panic |-> FALSE,
                  node  |-> [seg.node EXCEPT !.children[idx] = child]]

\* with_mapping with children_count initialised to 2 in the node literal
RECURSIVE with_mapping_count2(_, _)
with_mapping_count2(key, value) ==
  IF key = <<>>
    THEN ValueChild(value)
    ELSE
      LET parts == SplitAt(key, Min(Len(key), MAX_STORED_KEY_SEGMENT_SIZE))
          node  == set_segment(BlankNode(2), 0, parts.head).node
      IN  NodeChild([node EXCEPT !.children[0] = with_mapping_count2(parts.tail, value)])

\* with_mapping: key.chunks(M), one node of count 1 per chunk, folded from
\* the last chunk around Value(value); no chunk, no node
RECURSIVE with_mapping(_, _)
with_mapping(key, value) ==
  IF key = <<>>
    THEN ValueChild(value)
    ELSE
      LET parts == SplitAt(key, Min(Len(key), MAX_STORED_KEY_SEGMENT_SIZE))
          node  == set_segment(BlankNode(1), 0, parts.head).node
      IN  NodeChild([node EXCEPT !.children[0] = with_mapping(parts.tail, value)])

\* pushdown_children_under_key: self becomes a node of count 1 whose slot 0
\* holds old_key_fragment and the former self
pushdown_children_under_key(self, old_key_fragment) ==
  LET seg == set_segment(BlankNode(1), 0, old_key_fragment)
  IN  IF seg.panic
        THEN [panic |-> TRUE, child |-> self]
        ELSE [panic |-> FALSE,
              child |-> NodeChild([seg.node EXCEPT !.children[0] = self])]

(* ------------------------------ put and get ---------------------------- *)

\* the "Value" arms of put: a new chain from with_mapping takes the old value
\* under the empty fragment at index 0 and replaces the child
Promote(node, segment, key, v) ==
  LET old_val  == node.children[segment].value
      new_node == with_mapping(key, v)
  IN  IF new_node.tag # "Node"
        THEN [panic |-> TRUE, node |-> node]
        ELSE
          LET ins == insert_child(new_node.node, 0, <<>>, ValueChild(old_val))
          IN  IF ins.panic
                THEN [panic |-> TRUE, node |-> node]
                ELSE [panic |-> FALSE,
                      node  |-> [node EXCEPT !.children[segment] = NodeChild(ins.node)]]

\* the Smallest arm of put on a full node, up to the assignments of node and
\* key: the child of slot 0 is pushed down under the old fragment of slot 0,
\* the key is split at that fragment's length and its head is stored in slot 0
\* the Smallest arm on a full node that stores the remaining key, not the
\* new key fragment, in slot 0
PushdownSplit_storesRemainder(node, key) ==
  LET old_key_fragment == get_segment(node, 0)
  IN  IF ~old_key_fragment.ok \/ node.children[0].tag = "None"
        THEN [panic |-> TRUE, node |-> node, remaining_key |-> key]
        ELSE
          LET pushed == pushdown_children_under_key(node.children[0],
                                                    old_key_fragment.seg)
              node1  == [node EXCEPT !.children[0] = pushed.child]
          IN  IF pushed.panic \/ Len(key) < Len(old_key_fragment.seg)
                THEN [panic |-> TRUE, node |-> node1, remaining_key |-> key]
                ELSE
                  LET parts == SplitAt(key, Len(old_key_fragment.seg))
                      seg   == set_segment(node1, 0, parts.tail)
                  IN  [panic |-> seg.panic, node |-> seg.node,
                       remaining_key |-> parts.tail]

PushdownSplit(node, key) ==
  LET old_key_fragment == get_segment(node, 0)
  IN  IF ~old_key_fragment.ok \/ node.children[0].tag = "None"
        THEN [panic |-> TRUE, node |-> node, remaining_key |-> key]
        ELSE
          LET pushed == pushdown_children_under_key(node.children[0],
                                                    old_key_fragment.seg)
              node1  == [node EXCEPT !.children[0] = pushed.child]
          IN  IF pushed.panic \/ Len(key) < Len(old_key_fragment.seg)
                THEN [panic |-> TRUE, node |-> node1, remaining_key |-> key]
                ELSE
                  LET parts == SplitAt(key, Len(old_key_fragment.seg))
                      seg   == set_segment(node1, 0, parts.head)
                  IN  [panic |-> seg.panic, node |-> seg.node,
                       remaining_key |-> parts.tail]

\* the loop of put from one node on; the result is that node after the
\* operation, and whether the operation panicked
RECURSIVE PutLoop(_, _, _)
PutLoop(node, key, v) ==
  LET r == resolve_child(node, key)
      child == node.children[r.idx]
      Descend(n, slot, k) ==
        LET sub == PutLoop(n.children[slot].node, k, v)
        IN  [panic |-> sub.panic,
             node  |-> [n EXCEPT !.children[slot] = NodeChild(sub.node)]]
  IN
  CASE r.tag = "Panic" -> [panic |-> TRUE, node |-> node]
    [] r.tag = "Smallest" ->
         IF node.children_count < TREE_RADIX
           THEN insert_child(node, 0, key, with_mapping(key, v))
           ELSE
             LET split == PushdownSplit(node, key)
             IN  IF split.panic
                   THEN [panic |-> TRUE, node |-> split.node]
                   ELSE Descend(split.node, 0, split.remaining_key)
    [] r.tag = "ExactMatch" ->
         (CASE child.tag = "None" -> [panic |-> TRUE, node |-> node]
            [] child.tag = "Value" /\ r.remaining_key = <<>> ->
                 [panic |-> FALSE,
                  node  |-> [node EXCEPT !.children[r.idx] = ValueChild(v)]]
            [] child.tag = "Value" /\ r.remaining_key # <<>> ->
                 Promote(node, r.idx, r.remaining_key, v)
            [] child.tag = "Node" -> Descend(node, r.idx, r.remaining_key))
    [] r.tag = "InDomainOf" ->
         (CASE child.tag = "None" -> [panic |-> TRUE, node |-> node]
            [] child.tag = "Value" -> Promote(node, r.idx, key, v)
            [] child.tag = "Node" -> Descend(node, r.idx, key))

Some(v) == [tag |-> "Some", value |-> v]

None == [tag |-> "None"]

Abort == [tag |-> "Abort"]

Unit == [tag |-> "Unit"]

\* the loop of get from one node on
RECURSIVE GetLoop(_, _)
GetLoop(node, key) ==
  LET r == resolve_child(node, key)
      child == node.children[r.idx]
  IN
  CASE r.tag = "Panic" -> Abort
    [] r.tag = "Smallest" -> None
    [] r.tag = "ExactMatch" ->
         (CASE child.tag = "None" -> Abort
            [] child.tag = "Value" ->
                 IF r.remaining_key = <<>> THEN Some(child.value) ELSE None
            [] child.tag = "Node" ->
                 IF node = child.node THEN Abort
                 ELSE GetLoop(child.node, r.remaining_key))
    [] r.tag = "InDomainOf" ->
         (CASE child.tag = "None" -> Abort
            [] child.tag = "Value" -> None
            [] child.tag = "Node" ->
                 IF node = child.node THEN Abort
                 ELSE GetLoop(child.node, key))

(* -------------------------------- state -------------------------------- *)

VARIABLES
  root,      \* TSIMTree.root: the node behind the RwLock
  poisoned,  \* the RwLock's poison flag: a writer panicked while holding it
  hist,      \* the calls made so far, each with its outcome
  gate,      \* the RwLock's holders: the writer (0: none) and the readers
  thr,       \* per thread: where it is in put or get, and its arguments
  probe      \* the last direct call of an internal function, with its result

vars == <<root, poisoned, hist, gate, thr, probe>>

Threads == 1..MaxThreads

\* an RwLock that nobody holds
FreeGate == [writer |-> 0, readers |-> {}]

\* a thread outside put and get
IdleThread == [pc |-> "idle", key |-> <<>>, value |-> <<>>, snap |-> empty]

NoProbe == [fn |-> "none"]

PutCall(k, v, res) == [op |-> "put", key |-> k, value |-> v, result |-> res]

GetCall(k, res) == [op |-> "get", key |-> k, value |-> <<>>, result |-> res]

\* TSIMTree::new()
Init ==
  /\ root = empty
  /\ poisoned = FALSE
  /\ hist = <<>>
  /\ gate = FreeGate
  /\ thr = [t \in Threads |-> IdleThread]
  /\ probe = NoProbe

\* TSIMTree::put: write().expect(..) panics on a poisoned lock; a panic in
\* the loop unwinds through the write guard and poisons the lock
Put(k, v) ==
  IF poisoned
    THEN /\ hist' = Append(hist, PutCall(k, v, Abort))
         /\ UNCHANGED <<root, poisoned>>
    ELSE LET r == PutLoop(root, k, v)
         IN  /\ root' = r.node
             /\ poisoned' = r.panic
             /\ hist' = Append(hist, PutCall(k, v, IF r.panic THEN Abort ELSE Unit))

\* TSIMTree::get that descends the way put does and leaves an empty value
\* under a key it does not find
Get_insertsDefault(k) ==
  /\ hist' = Append(hist, GetCall(k, IF poisoned THEN Abort ELSE GetLoop(root, k)))
  /\ root' = IF poisoned THEN root ELSE PutLoop(root, k, <<>>).node
  /\ UNCHANGED poisoned

\* TSIMTree::get with the poison of the lock not looked at
Get_ignorePoison(k) ==
  /\ hist' = Append(hist, GetCall(k, GetLoop(root, k)))
  /\ UNCHANGED <<root, poisoned>>

\* TSIMTree::get: read().expect(..) panics on a poisoned lock; a panicking
\* reader does not poison it
Get(k) ==
  /\ hist' = Append(hist, GetCall(k, IF poisoned THEN Abort ELSE GetLoop(root, k)))
  /\ UNCHANGED <<root, poisoned>>

\* a call of put by a single thread: lock, loop and unlock in one step
PutAny ==
  /\ Len(hist) < MaxOps
  /\ \E k \in Keys, v \in Vals : Put(k, v)
  /\ UNCHANGED <<gate, thr, probe>>

\* a call of get by a single thread
GetAny ==
  /\ Len(hist) < MaxOps
  /\ \E k \in Keys : Get(k)
  /\ UNCHANGED <<gate, thr, probe>>

Next == PutAny \/ GetAny

Spec == Init /\ [][Next]_vars

(* --------------------------- the fill scenario -------------------------- *)

\* R keys of one byte with first bytes 1..R, put in ascending or in
\* descending order, then the key <<0>>, smaller than all of them; then gets
FillKeys == {<<b>> : b \in 0..TREE_RADIX}

FillVal(k) == <<100 + k[1]>>

FillNextKeys ==
  IF Len(hist) = 0 THEN {<<1>>, <<TREE_RADIX>>}
  ELSE IF Len(hist) = TREE_RADIX THEN {<<0>>}
  ELSE IF hist[1].key = <<1>> THEN {<<Len(hist) + 1>>}
  ELSE {<<TREE_RADIX - Len(hist)>>}

FillPut ==
  /\ Len(hist) <= TREE_RADIX
  /\ \E k \in FillNextKeys : Put(k, FillVal(k))
  /\ UNCHANGED <<gate, thr, probe>>

FillGet ==
  /\ Len(hist) > TREE_RADIX
  /\ Len(hist) < TREE_RADIX + 1 + MaxFillGets
  /\ \E k \in FillKeys : Get(k)
  /\ UNCHANGED <<gate, thr, probe>>

NextFill == FillPut \/ FillGet

SpecFill == Init /\ [][NextFill]_vars

(* ------------------------------ the threads ----------------------------- *)

ConcKeys == {BaseKey(n) : n \in 0..1} \cup {BaseKey(MAX_STORED_KEY_SEGMENT_SIZE + 1)}

ConcVals == {<<10>>, <<20>>}

\* the calls that have started
Started == Len(hist) + Cardinality({t \in Threads : thr[t].pc # "idle"})

\* RwLock::write with the readers not looked at
CanWrite_ignoreReaders(g) == g.writer = 0

\* RwLock::write returns when no guard is held
CanWrite(g) == g.writer = 0 /\ g.readers = {}

\* RwLock::read returns when no write guard is held
CanRead(g) == g.writer = 0

\* put up to the return of self.root.write()
PutAcquire(t) ==
  /\ thr[t].pc = "idle"
  /\ Started < MaxConcOps
  /\ CanWrite(gate)
  /\ gate' = [gate EXCEPT !.writer = t]
  /\ \E k \in ConcKeys, v \in ConcVals :
       thr' = [thr EXCEPT ![t] = [pc |-> "put", key |-> k, value |-> v, snap |-> root]]
  /\ UNCHANGED <<root, poisoned, hist, probe>>

\* the rest of put; the write guard is dropped on return and on unwinding
PutBody(t) ==
  /\ thr[t].pc = "put"
  /\ Put(thr[t].key, thr[t].value)
  /\ gate' = [gate EXCEPT !.writer = 0]
  /\ thr' = [thr EXCEPT ![t] = IdleThread]
  /\ UNCHANGED probe

\* get up to the return of self.root.read()
GetAcquire(t) ==
  /\ thr[t].pc = "idle"
  /\ Started < MaxConcOps
  /\ CanRead(gate)
  /\ gate' = [gate EXCEPT !.readers = @ \cup {t}]
  /\ \E k \in ConcKeys :
       thr' = [thr EXCEPT ![t] = [pc |-> "get", key |-> k, value |-> <<>>, snap |-> root]]
  /\ UNCHANGED <<root, poisoned, hist, probe>>

\* the rest of get; the read guard is dropped on return and on unwinding
GetBody(t) ==
  /\ thr[t].pc = "get"
  /\ Get(thr[t].key)
  /\ gate' = [gate EXCEPT !.readers = @ \ {t}]
  /\ thr' = [thr EXCEPT ![t] = IdleThread]
  /\ UNCHANGED probe

PutAcquireAny == \E t \in Threads : PutAcquire(t)

PutBodyAny == \E t \in Threads : PutBody(t)

GetAcquireAny == \E t \in Threads : GetAcquire(t)

GetBodyAny == \E t \in Threads : GetBody(t)

NextConc == PutAcquireAny \/ PutBodyAny \/ GetAcquireAny \/ GetBodyAny

SpecConc == Init /\ [][NextConc]_vars

(* ----------------------- direct calls of the internals ------------------ *)

\* the fragments of the nodes that are built directly
FragPool == {<<>>, <<1>>, <<1, 5>>, <<1, 5, 0>>, <<2>>, <<3>>}

\* the fragments of slot 0 of the full nodes; slots 1..R-1 hold <<2>>..<<R>>
FirstFrags == {<<1>>, <<1, 5>>, <<0, 9>>}

ProbeKeys ==
  {<<>>, <<0>>, <<0, 5>>, <<0, 9>>, <<1>>, <<1, 4>>, <<1, 5>>, <<1, 5, 0>>,
   <<1, 6>>, <<2>>, <<2, 1>>, <<4>>, <<17>>}

\* the fragments of S in ascending order
RECURSIVE SortFrags(_)
SortFrags(S) ==
  IF S = {} THEN <<>>
  ELSE LET least == CHOOSE f \in S : \A g \in S \ {f} : SliceCmp(f, g) = "Less"
       IN  <<least>> \o SortFrags(S \ {least})

\* a node built as test_node_resolving builds one: the struct literal with
\* children Some(Value(vec![i])) below the count, then set_segment per slot
RECURSIVE SetSegments(_, _, _)
SetSegments(node, frags, i) ==
  IF i = Len(frags) THEN node
  ELSE SetSegments(set_segment(node, i, frags[i + 1]).node, frags, i + 1)

MakeNode(frags) ==
  SetSegments([BlankNode(Len(frags)) EXCEPT
                 !.children = [i \in SlotIdx |->
                                 IF i < Len(frags) THEN ValueChild(<<i>>) ELSE NoChild]],
              frags, 0)

\* a full node: fragment f0, then <<2>>, .., <<R>>; slot 0 holds child0
FullNode(f0, child0) ==
  [MakeNode([i \in 1..TREE_RADIX |-> IF i = 1 THEN f0 ELSE <<i>>])
     EXCEPT !.children[0] = child0]

ProbeNodes ==
  {MakeNode(SortFrags(S)) : S \in {T \in SUBSET FragPool : Cardinality(T) <= MaxNodeCount}}
  \cup {FullNode(f0, c) : f0 \in FirstFrags,
                          c \in {ValueChild(<<0>>), with_mapping(<<7>>, <<0>>)}}

ProbeChildren == {ValueChild(<<99>>), with_mapping(<<8, 8>>, <<99>>)}

MappingKeys == {[i \in 1..n |-> i + s] : n \in 0..MaxChainLen, s \in 0..3}

\* node.resolve_child(key)
ProbeResolve ==
  /\ probe = NoProbe
  /\ \E n \in ProbeNodes, k \in ProbeKeys :
       probe' = [fn |-> "resolve_child", node |-> n, key |-> k,
                 out |-> resolve_child(n, k)]
  /\ UNCHANGED <<root, poisoned, hist, gate, thr>>

\* node.insert_child(idx, key_fragment, child)
ProbeInsert ==
  /\ probe = NoProbe
  /\ \E n \in ProbeNodes, f \in {<<>>, <<0>>, <<1, 2, 3, 4, 5, 6, 7>>}, c \in ProbeChildren :
       \E i \in 0..Min(n.children_count, TREE_RADIX - 1) :
         probe' = [fn |-> "insert_child", node |-> n, idx |-> i,
                   key_fragment |-> f, child |-> c,
                   out |-> insert_child(n, i, f, c)]
  /\ UNCHANGED <<root, poisoned, hist, gate, thr>>

\* TSIMTreeNodeChild::with_mapping(key, value)
ProbeMapping ==
  /\ probe = NoProbe
  /\ \E k \in MappingKeys, v \in Vals :
       probe' = [fn |-> "with_mapping", key |-> k, value |-> v,
                 out |-> with_mapping(k, v)]
  /\ UNCHANGED <<root, poisoned, hist, gate, thr>>

PutKeys8 == ProbeKeys \cup {BaseKey(MAX_STORED_KEY_SEGMENT_SIZE + MaxOver)}

\* the loop of put, entered at a node
ProbePut ==
  /\ probe = NoProbe
  /\ \E n \in ProbeNodes, k \in PutKeys8, v \in {<<10>>} :
       probe' = [fn |-> "put", node |-> n, key |-> k, value |-> v,
                 out |-> PutLoop(n, k, v)]
  /\ UNCHANGED <<root, poisoned, hist, gate, thr>>

\* the Smallest arm of put on a full node
ProbeSplit ==
  /\ probe = NoProbe
  /\ \E n \in ProbeNodes, k \in PutKeys8 :
       /\ resolve_child(n, k) = Smallest
       /\ ~(n.children_count < TREE_RADIX)
       /\ probe' = [fn |-> "pushdown_split", node |-> n, key |-> k,
                    out |-> PushdownSplit(n, k)]
  /\ UNCHANGED <<root, poisoned, hist, gate, thr>>

NextProbe == ProbeResolve \/ ProbeInsert \/ ProbeMapping \/ ProbePut \/ ProbeSplit

SpecProbe == Init /\ [][NextProbe]_vars

(* ------------------------ the loops, step by step ----------------------- *)

\* the loop of resolve_child without the exit of the Greater arm
SearchIter_noDomainExit(node, key, left_segment_idx, right_segment_idx) ==
  LET segment == left_segment_idx + (right_segment_idx - left_segment_idx) \div 2
      c       == compare_key_segment(node.key_segments[segment], key)
      Ends(res) == [done |-> TRUE, out |-> res,
                    left |-> left_segment_idx, right |-> right_segment_idx]
      Goes(l, r) == [done |-> FALSE, out |-> Smallest, left |-> l, right |-> r]
  IN  IF ~(left_segment_idx < right_segment_idx) THEN Ends(Smallest)
      ELSE IF c.panic THEN Ends(ResolvePanic)
      ELSE IF c.ordering = "Equal" THEN Ends(ExactMatch(segment, c.remaining_key))
      ELSE IF c.ordering = "Greater" THEN Goes(segment, right_segment_idx)
      ELSE Goes(left_segment_idx, segment)

\* one evaluation of the condition and the body of the while loop of
\* resolve_child: the loop ends with a result or goes on with a new range
SearchIter(node, key, left_segment_idx, right_segment_idx) ==
  LET segment == left_segment_idx + (right_segment_idx - left_segment_idx) \div 2
      c       == compare_key_segment(node.key_segments[segment], key)
      Ends(res) == [done |-> TRUE, out |-> res,
                    left |-> left_segment_idx, right |-> right_segment_idx]
      Goes(l, r) == [done |-> FALSE, out |-> Smallest, left |-> l, right |-> r]
  IN  IF ~(left_segment_idx < right_segment_idx) THEN Ends(Smallest)
      ELSE IF c.panic THEN Ends(ResolvePanic)
      ELSE IF c.ordering = "Equal" THEN Ends(ExactMatch(segment, c.remaining_key))
      ELSE IF c.ordering = "Greater" /\ left_segment_idx + 1 = right_segment_idx
        THEN Ends(InDomainOf(segment))
      ELSE IF c.ordering = "Greater" THEN Goes(segment, right_segment_idx)
      ELSE Goes(left_segment_idx, segment)

\* the assert of insert_child, or the one of its set_segment, that fails
InsertFault(node, idx, key_fragment) ==
  IF ~(node.children_count < TREE_RADIX) THEN "full_node"
  ELSE IF ~(idx < TREE_RADIX) THEN "segment_idx"
  ELSE IF ~(Len(key_fragment) <= MAX_STORED_KEY_SEGMENT_SIZE) THEN "segment_len"
  ELSE "none"

\* the panic of the Value arms of put
PromoteFault(key, v) ==
  IF with_mapping(key, v).tag # "Node" THEN "not_a_node"
  ELSE InsertFault(with_mapping(key, v).node, 0, <<>>)

\* the panic of the Smallest arm of put on a full node
SplitFault(node, key) ==
  IF ~get_segment(node, 0).ok THEN "invalid_segment"
  ELSE IF node.children[0].tag = "None" THEN "child_none"
  ELSE IF Len(key) < Len(get_segment(node, 0).seg) THEN "split_at"
  ELSE "none"

\* one iteration of the loop of put at node: the put returns, panics, or
\* goes on in the child at slot with the key that is left
PutIter(node, key, v) ==
  LET r     == resolve_child(node, key)
      child == node.children[r.idx]
      Returns(n)        == [kind |-> "return", fault |-> "none", node |-> n,
                            slot |-> 0, key |-> key]
      Panics(f, n)      == [kind |-> "panic", fault |-> f, node |-> n,
                            slot |-> 0, key |-> key]
      Descends(n, i, k) == [kind |-> "descend", fault |-> "none", node |-> n,
                            slot |-> i, key |-> k]
      Finish(res, f)    == IF res.panic THEN Panics(f, res.node) ELSE Returns(res.node)
  IN
  CASE r.tag = "Panic" -> Panics("invalid_segment", node)
    [] r.tag = "Smallest" ->
         IF node.children_count < TREE_RADIX
           THEN Finish(insert_child(node, 0, key, with_mapping(key, v)),
                       InsertFault(node, 0, key))
           ELSE
             LET split == PushdownSplit(node, key)
             IN  IF split.panic
                   THEN Panics(SplitFault(node, key), split.node)
                   ELSE Descends(split.node, 0, split.remaining_key)
    [] r.tag = "ExactMatch" ->
         (CASE child.tag = "None" -> Panics("child_none", node)
            [] child.tag = "Value" /\ r.remaining_key = <<>> ->
                 Returns([node EXCEPT !.children[r.idx] = ValueChild(v)])
            [] child.tag = "Value" /\ r.remaining_key # <<>> ->
                 Finish(Promote(node, r.idx, r.remaining_key, v),
                        PromoteFault(r.remaining_key, v))
            [] child.tag = "Node" -> Descends(node, r.idx, r.remaining_key))
    [] r.tag = "InDomainOf" ->
         (CASE child.tag = "None" -> Panics("child_none", node)
            [] child.tag = "Value" ->
                 Finish(Promote(node, r.idx, key, v), PromoteFault(key, v))
            [] child.tag = "Node" -> Descends(node, r.idx, key))

\* one iteration of the loop of get at node: the get returns, panics, or
\* goes on in the child at slot with the key that is left
GetIter(node, key) ==
  LET r     == resolve_child(node, key)
      child == node.children[r.idx]
      Returns(res)   == [kind |-> "return", fault |-> "none", result |-> res,
                         slot |-> 0, key |-> key]
      Panics(f)      == [kind |-> "panic", fault |-> f, result |-> Abort,
                         slot |-> 0, key |-> key]
      Descends(i, k) == [kind |-> "descend", fault |-> "none", result |-> None,
                         slot |-> i, key |-> k]
  IN
  CASE r.tag = "Panic" -> Panics("invalid_segment")
    [] r.tag = "Smallest" -> Returns(None)
    [] r.tag = "ExactMatch" ->
         (CASE child.tag = "None" -> Panics("child_none")
            [] child.tag = "Value" ->
                 Returns(IF r.remaining_key = <<>> THEN Some(child.value) ELSE None)
            [] child.tag = "Node" ->
                 IF node = child.node THEN Panics("assert_ne")
                 ELSE Descends(r.idx, r.remaining_key))
    [] r.tag = "InDomainOf" ->
         (CASE child.tag = "None" -> Panics("child_none")
            [] child.tag = "Value" -> Returns(None)
            [] child.tag = "Node" ->
                 IF node = child.node THEN Panics("assert_ne")
                 ELSE Descends(r.idx, key))

\* the node the reference `node` points to: the one reached from the root
\* of tree through the slots of path
RECURSIVE NodeAt(_, _)
NodeAt(tree, path) ==
  IF path = <<>> THEN tree
  ELSE NodeAt(tree.children[Head(path)].node, Tail(path))

\* tree after the writes made through the reference `node`
RECURSIVE ReplaceAt(_, _, _)
ReplaceAt(tree, path, n) ==
  IF path = <<>> THEN n
  ELSE [tree EXCEPT !.children[Head(path)] =
          NodeChild(ReplaceAt(tree.children[Head(path)].node, Tail(path), n))]

\* the keys of the puts that build trees from the empty tree
StepPutKeys == {BaseKey(n) : n \in 0..MaxShort} \cup {<<2>>}

\* the trees that sequences of at most n puts build from the empty tree
RECURSIVE PutTrees(_)
PutTrees(n) ==
  IF n = 0 THEN {empty}
  ELSE PutTrees(n - 1) \cup
       {PutLoop(t, k, v).node : t \in PutTrees(n - 1), k \in StepPutKeys, v \in {<<10>>}}

\* keys whose put into a directly built node gives a tree of several levels
NestKeys == {<<0>>, <<1, 4>>, <<2, 1>>, <<4>>}

\* the trees of SpecSteps: the ones puts build, the directly built nodes,
\* and the latter after one completed put
StepTrees ==
  PutTrees(MaxStepPuts) \cup ProbeNodes \cup
  {PutLoop(n, k, <<10>>).node :
     n \in {m \in ProbeNodes : \A k \in NestKeys : ~PutLoop(m, k, <<10>>).panic},
     k \in NestKeys}

\* node.resolve_child(key) is entered: the early return and the assert
SearchStart ==
  /\ probe = NoProbe
  /\ \E n \in StepTrees, k \in PutKeys8 :
       probe' = [fn |-> "search", node |-> n, key |-> k, iter |-> 0,
                 left |-> 0, right |-> n.children_count,
                 done |-> (n.children_count = 0 \/ ~(n.children_count <= TREE_RADIX)),
                 out |-> IF n.children_count = 0 THEN Smallest ELSE ResolvePanic]
  /\ UNCHANGED <<root, poisoned, hist, gate, thr>>

\* one iteration of the while loop of resolve_child
SearchStep ==
  /\ probe.fn = "search" /\ ~probe.done /\ probe.iter < MaxIter
  /\ LET it == SearchIter(probe.node, probe.key, probe.left, probe.right)
     IN  probe' = [probe EXCEPT !.iter = @ + 1, !.done = it.done, !.out = it.out,
                                !.left = it.left, !.right = it.right]
  /\ UNCHANGED <<root, poisoned, hist, gate, thr>>

\* get is entered with node = the root
GetStart ==
  /\ probe = NoProbe
  /\ \E t \in StepTrees, k \in PutKeys8 :
       probe' = [fn |-> "get", tree0 |-> t, key0 |-> k, value |-> <<>>,
                 tree |-> t, path |-> <<>>, key |-> k, iter |-> 0,
                 done |-> FALSE, fault |-> "none", result |-> None]
  /\ UNCHANGED <<root, poisoned, hist, gate, thr>>

\* one iteration of the loop of get
GetStep ==
  /\ probe.fn = "get" /\ ~probe.done /\ probe.iter < MaxIter
  /\ LET it == GetIter(NodeAt(probe.tree, probe.path), probe.key)
     IN  probe' = [probe EXCEPT
                     !.iter = @ + 1,
                     !.done = it.kind # "descend",
                     !.fault = it.fault,
                     !.result = it.result,
                     !.path = IF it.kind = "descend" THEN Append(@, it.slot) ELSE @,
                     !.key = it.key]
  /\ UNCHANGED <<root, poisoned, hist, gate, thr>>

\* put is entered with node = the root
PutStart ==
  /\ probe = NoProbe
  /\ \E t \in StepTrees, k \in PutKeys8 :
       probe' = [fn |-> "put", tree0 |-> t, key0 |-> k, value |-> <<10>>,
                 tree |-> t, path |-> <<>>, key |-> k, iter |-> 0,
                 done |-> FALSE, fault |-> "none", result |-> Unit]
  /\ UNCHANGED <<root, poisoned, hist, gate, thr>>

\* one iteration of the loop of put
PutStep ==
  /\ probe.fn = "put" /\ ~probe.done /\ probe.iter < MaxIter
  /\ LET it == PutIter(NodeAt(probe.tree, probe.path), probe.key, probe.value)
     IN  probe' = [probe EXCEPT
                     !.iter = @ + 1,
                     !.done = it.kind # "descend",
                     !.fault = it.fault,
                     !.result = IF it.kind = "panic" THEN Abort ELSE Unit,
                     !.tree = ReplaceAt(@, probe.path, it.node),
                     !.path = IF it.kind = "descend" THEN Append(@, it.slot) ELSE @,
                     !.key = it.key]
  /\ UNCHANGED <<root, poisoned, hist, gate, thr>>

NextSteps ==
  SearchStart \/ SearchStep \/ GetStart \/ GetStep \/ PutStart \/ PutStep

SpecSteps == Init /\ [][NextSteps]_vars

(* ---------------------- reading the tree and the calls ------------------ *)

\* every node of the tree below (and including) n
RECURSIVE NodesOf(_)
NodesOf(n) ==
  {n} \cup UNION {NodesOf(n.children[i].node) :
                    i \in {j \in SlotIdx : n.children[j].tag = "Node"}}

\* the keys spelled by the paths from n to a Value, through the slots that
\* hold a child
RECURSIVE SpelledKeys(_)
SpelledKeys(n) ==
  UNION {LET c == n.children[i]
             f == stored_segment(n.key_segments[i]).seg
         IN  IF c.tag = "Value" THEN {f}
             ELSE {f \o rest : rest \in SpelledKeys(c.node)} :
         i \in {j \in SlotIdx : n.children[j].tag # "None"}}

\* the number of paths from n to a Value that spell k
RECURSIVE PathCount(_, _)
RECURSIVE PathCountFrom(_, _, _)
PathCountFrom(n, k, i) ==
  IF i = TREE_RADIX THEN 0
  ELSE
    LET c    == n.children[i]
        f    == stored_segment(n.key_segments[i]).seg
        here ==
          IF c.tag = "None" THEN 0
          ELSE IF c.tag = "Value" THEN (IF f = k THEN 1 ELSE 0)
          ELSE IF Len(f) <= Len(k) /\ SubSeq(k, 1, Len(f)) = f
            THEN PathCount(c.node, SubSeq(k, Len(f) + 1, Len(k)))
          ELSE 0
    IN  here + PathCountFrom(n, k, i + 1)

PathCount(n, k) == PathCountFrom(n, k, 0)

IsPut(c) == c.op = "put"

IsGet(c) == c.op = "get"

\* the keys passed to put in the first n calls
PutKeys(n) == {hist[i].key : i \in {j \in 1..n : IsPut(hist[j])}}

\* the ideal map after the first n calls: the value of the last put of k
Ideal(n, k) ==
  LET last == CHOOSE i \in 1..n :
                /\ IsPut(hist[i]) /\ hist[i].key = k
                /\ \A j \in (i + 1)..n : ~(IsPut(hist[j]) /\ hist[j].key = k)
  IN  hist[last].value

(* -------------------------------- claims -------------------------------- *)

\* C1: a get that follows a sequence of puts returns Some(m[k]) for every key
\* k of the ideal map m built from the same puts (last write per key wins).
C1_ModelEquivalence ==
  \A i \in 1..Len(hist) :
    ( /\ IsGet(hist[i])
      /\ \A j \in 1..(i - 1) : IsPut(hist[j])
      /\ hist[i].key \in PutKeys(i - 1) )
    => hist[i].result = Some(Ideal(i - 1, hist[i].key))

\* C2: in every reachable tree, a get(k) issued immediately after put(k, v)
\* returns Some(v), for every key (the empty key and keys longer than 7
\* bytes included).
C2_RoundTrip ==
  \A i \in 2..Len(hist) :
    ( /\ IsGet(hist[i]) /\ IsPut(hist[i - 1])
      /\ hist[i].key = hist[i - 1].key )
    => hist[i].result = Some(hist[i - 1].value)

\* C3: after put(k, v1) followed by put(k, v2), get(k) returns Some(v2).
C3_Overwrite ==
  \A i \in 3..Len(hist) :
    ( /\ IsGet(hist[i]) /\ IsPut(hist[i - 1]) /\ IsPut(hist[i - 2])
      /\ hist[i].key = hist[i - 1].key
      /\ hist[i].key = hist[i - 2].key )
    => hist[i].result = Some(hist[i - 1].value)

\* C4: after put(k1, v1) and put(k2, v2) with k1 # k2 on a new tree, in
\* either order, get(k1) = Some(v1) and get(k2) = Some(v2).
C4_Independence ==
  \A i \in 3..Len(hist) :
    ( /\ IsPut(hist[1]) /\ IsPut(hist[2]) /\ hist[1].key # hist[2].key
      /\ \A j \in 3..i : IsGet(hist[j])
      /\ hist[i].key \in {hist[1].key, hist[2].key} )
    => hist[i].result =
         Some(IF hist[i].key = hist[1].key THEN hist[1].value ELSE hist[2].value)

\* C5: a get of a key that was never the key of a put returns absent.
C5_Absence ==
  \A i \in 1..Len(hist) :
    (IsGet(hist[i]) /\ hist[i].key \notin PutKeys(i - 1))
    => hist[i].result = None

\* C6: after every completed put, in every node the slots below count hold a
\* child and the slots from count on hold none.
C6_CountedSlotsOccupied ==
  ~poisoned =>
    \A n \in NodesOf(root) : \A i \in SlotIdx :
      (i < n.children_count) <=> (n.children[i].tag # "None")

\* C7: after every completed put, every root-to-Value path spells a key that
\* was passed to put, and every key passed to put is spelled by exactly one
\* root-to-Value path.
C7_PathsSpellPutKeys ==
  ~poisoned =>
    /\ SpelledKeys(root) \subseteq PutKeys(Len(hist))
    /\ \A k \in PutKeys(Len(hist)) : PathCount(root, k) = 1

\* C8: after every completed put, in every node the decoded fragments of the
\* first count segments are strictly ascending in lexicographic byte order.
C8_SegmentsAscending ==
  (probe.fn = "put" /\ probe.done /\ probe.result = Unit) =>
    \A n \in NodesOf(probe.tree) : \A i \in 0..(n.children_count - 2) :
      /\ get_segment(n, i).ok /\ get_segment(n, i + 1).ok
      /\ SliceCmp(get_segment(n, i).seg, get_segment(n, i + 1).seg) = "Less"

\* C8 witness: a put into a full node has completed and has replaced the
\* fragment of slot 0, which stands before fifteen more counted fragments.
C8_Witness ==
  /\ probe.fn = "put" /\ probe.done /\ probe.result = Unit
  /\ probe.tree0.children_count = TREE_RADIX
  /\ probe.tree.children_count = TREE_RADIX
  /\ probe.tree.key_segments[0] # probe.tree0.key_segments[0]

\* C9: no put and no get aborts, for keys of every length 0..32.
C9_NoAbort ==
  \A i \in 1..Len(hist) : hist[i].result # Abort

\* C10: after R puts of keys with strictly increasing first bytes and a put
\* of a key smaller than all of them, the node's child 0 is a Subtree and
\* get returns the put value for all R + 1 keys.
C10_FillThenPushdown ==
  Len(hist) > TREE_RADIX =>
    /\ root.children[0].tag = "Node"
    /\ \A i \in (TREE_RADIX + 2)..Len(hist) :
         hist[i].result = Some(FillVal(hist[i].key))

\* C11: while a thread is inside put no other thread is inside put or get,
\* and the tree a thread finds inside put or get is the tree it found when
\* it acquired the gate: a get sees every put entirely or not at all.
C11_GateSerializes ==
  /\ \A t \in Threads :
       thr[t].pc = "put" => \A u \in Threads \ {t} : thr[u].pc = "idle"
  /\ \A t \in Threads : thr[t].pc # "idle" => root = thr[t].snap

\* C11 witness: after a completed put two threads are inside get at once.
C11_Witness ==
  /\ \E i \in 1..Len(hist) : IsPut(hist[i]) /\ hist[i].result = Unit
  /\ \E t, u \in Threads : t # u /\ thr[t].pc = "get" /\ thr[u].pc = "get"

\* C12: once a put has aborted, every later get and every later put on the
\* tree aborts.
C12_PoisonedGateAborts ==
  \A i, j \in 1..Len(hist) :
    (i < j /\ IsPut(hist[i]) /\ hist[i].result = Abort)
    => hist[j].result = Abort

\* C12 witness: a put aborted on a usable tree, and a get and a put were
\* called after it.
C12_Witness ==
  /\ Len(hist) >= 3
  /\ IsPut(hist[1]) /\ hist[1].result = Abort
  /\ \E i, j \in 2..Len(hist) : IsGet(hist[i]) /\ IsPut(hist[j])

\* C13: in every reachable tree every node has count <= R and every segment
\* slot has a length byte <= M, so that stored_segment decodes every slot.
C13_CountAndLengthsBounded ==
  \A n \in NodesOf(root) :
    /\ n.children_count <= TREE_RADIX
    /\ \A i \in SlotIdx :
         /\ n.key_segments[i][0] <= MAX_STORED_KEY_SEGMENT_SIZE
         /\ stored_segment(n.key_segments[i]).ok

\* C13 witness: a completed put has stored a fragment of the largest length M.
C13_Witness ==
  /\ \E i \in 1..Len(hist) : IsPut(hist[i]) /\ hist[i].result = Unit
  /\ \E n \in NodesOf(root) : \E i \in SlotIdx :
       n.key_segments[i][0] = MAX_STORED_KEY_SEGMENT_SIZE

\* C14: insert_child(i, fragment, child) on a node with count < R and
\* i <= count shifts segments[i..count] and children[i..count] right by one,
\* writes the fragment and the child at i, leaves the slots below i
\* unchanged and increments count by exactly one.
C14_InsertChildShiftsAndCounts ==
  ( /\ probe.fn = "insert_child"
    /\ probe.node.children_count < TREE_RADIX
    /\ probe.idx <= probe.node.children_count )
  => /\ ~probe.out.panic
     /\ \A j \in 0..(probe.idx - 1) :
          /\ probe.out.node.key_segments[j] = probe.node.key_segments[j]
          /\ probe.out.node.children[j] = probe.node.children[j]
     /\ \A j \in probe.idx..(probe.node.children_count - 1) :
          /\ probe.out.node.key_segments[j + 1] = probe.node.key_segments[j]
          /\ probe.out.node.children[j + 1] = probe.node.children[j]
     /\ get_segment(probe.out.node, probe.idx).seg = probe.key_fragment
     /\ probe.out.node.children[probe.idx] = probe.child
     /\ probe.out.node.children_count = probe.node.children_count + 1

\* C15: when put resolves Smallest in a node with count < R, the new slot 0
\* stores k truncated to at most M bytes and its child maps the remainder of
\* k: Value(v) when len(k) <= M, a mapping chain over k[M..] otherwise, so
\* that the path through the new slot spells exactly k.
C15_SmallestStoresTruncatedKey ==
  ( /\ probe.fn = "put"
    /\ resolve_child(probe.node, probe.key) = Smallest
    /\ probe.node.children_count < TREE_RADIX )
  => LET parts == SplitAt(probe.key, Min(Len(probe.key), MAX_STORED_KEY_SEGMENT_SIZE))
         slot0 == probe.out.node.children[0]
     IN  /\ ~probe.out.panic
         /\ get_segment(probe.out.node, 0).seg = parts.head
         /\ slot0 = IF Len(probe.key) <= MAX_STORED_KEY_SEGMENT_SIZE
                      THEN ValueChild(probe.value)
                      ELSE with_mapping(parts.tail, probe.value)
         /\ IF slot0.tag = "Node"
              THEN {parts.head \o rest : rest \in SpelledKeys(slot0.node)} = {probe.key}
              ELSE slot0.tag = "Value" /\ parts.head = probe.key

\* the chain the specification describes for key k and value v: a node of
\* count 1 with only slot 0 occupied, holding the first chunk of k and the
\* chain for the rest, or Value(v) when no byte of k is left
RECURSIVE ClaimedChain(_, _, _)
ClaimedChain(c, k, v) ==
  LET parts == SplitAt(k, Min(Len(k), MAX_STORED_KEY_SEGMENT_SIZE))
  IN  /\ c.tag = "Node"
      /\ c.node.children_count = 1
      /\ get_segment(c.node, 0).ok
      /\ get_segment(c.node, 0).seg = parts.head
      /\ \A i \in SlotIdx \ {0} : c.node.children[i] = NoChild
      /\ IF parts.tail = <<>>
           THEN c.node.children[0] = ValueChild(v)
           ELSE ClaimedChain(c.node.children[0], parts.tail, v)

\* C16 as claimed: with_mapping(k, v) returns for every key k, the empty key
\* included, a Subtree that is a chain of nodes of count 1 over the M-byte
\* chunks of k, ending in Value(v).
C16_MappingIsSubtreeForEveryKey ==
  probe.fn = "with_mapping" => ClaimedChain(probe.out, probe.key, probe.value)

\* C16 as amended: with_mapping(k, v) returns that chain for every key k that
\* is not empty, and the bare Value(v) for the empty key.
C16_MappingChainOrBareValue ==
  probe.fn = "with_mapping" =>
    IF probe.key = <<>>
      THEN probe.out = ValueChild(probe.value)
      ELSE ClaimedChain(probe.out, probe.key, probe.value)

\* C16 witness: with_mapping was called with a key of three chunks.
C16_Witness ==
  /\ probe.fn = "with_mapping"
  /\ Len(probe.key) > 2 * MAX_STORED_KEY_SEGMENT_SIZE
  /\ probe.out.tag = "Node"

\* the ordering compare_key_segment gives for key k against slot i of n
OrderingAt(n, i, k) == compare_key_segment(n.key_segments[i], k).ordering

\* the first count segments of n are strictly ascending
StrictlyAscending(n) ==
  \A i \in 0..(n.children_count - 2) :
    SliceCmp(get_segment(n, i).seg, get_segment(n, i + 1).seg) = "Less"

\* C17: on a node whose first count segments are strictly ascending,
\* resolve_child returns Smallest iff the node is empty or k compares Less
\* against every stored segment; ExactMatch(i, rest) only when fragment i is
\* a prefix of k and rest = k[len(fragment i)..]; InDomainOf(i) only when k
\* compares Greater against segment i and either i = count - 1 or k compares
\* Less against segment i + 1.
C17_ResolveChildClassifies ==
  (probe.fn = "resolve_child" /\ StrictlyAscending(probe.node)) =>
    LET n == probe.node
        k == probe.key
        r == probe.out
    IN  /\ r.tag \in {"Smallest", "ExactMatch", "InDomainOf"}
        /\ (r.tag = "Smallest") <=>
             ( \/ n.children_count = 0
               \/ \A i \in 0..(n.children_count - 1) : OrderingAt(n, i, k) = "Less" )
        /\ r.tag = "ExactMatch" =>
             LET f == get_segment(n, r.idx).seg
             IN  /\ r.idx < n.children_count
                 /\ Len(f) <= Len(k)
                 /\ SubSeq(k, 1, Len(f)) = f
                 /\ r.remaining_key = SubSeq(k, Len(f) + 1, Len(k))
        /\ r.tag = "InDomainOf" =>
             /\ r.idx < n.children_count
             /\ OrderingAt(n, r.idx, k) = "Greater"
             /\ \/ r.idx = n.children_count - 1
                \/ OrderingAt(n, r.idx + 1, k) = "Less"

\* C17 witness: resolve_child answered InDomainOf for a slot that is not the
\* last one of a node of three or more segments.
C17_Witness ==
  /\ probe.fn = "resolve_child"
  /\ StrictlyAscending(probe.node)
  /\ probe.node.children_count >= 3
  /\ probe.out.tag = "InDomainOf"
  /\ probe.out.idx < probe.node.children_count - 1

\* C18: a pushdown-split of a full node N for key k, with f0 the old fragment
\* of slot 0, leaves N's count at R and the slots 1..R-1 unchanged, sets the
\* fragment of slot 0 to k[0..len(f0)] and its child to a new node of count 1
\* whose single slot holds f0 and the original child; N's segments remain
\* strictly ascending and the descent goes on with k[len(f0)..].
C18_PushdownSplitFrame ==
  (probe.fn = "pushdown_split" /\ StrictlyAscending(probe.node)) =>
    LET n   == probe.node
        k   == probe.key
        f0  == get_segment(n, 0).seg
        out == probe.out
        c0  == out.node.children[0]
    IN  /\ ~out.panic
        /\ out.node.children_count = TREE_RADIX
        /\ \A i \in SlotIdx \ {0} :
             /\ out.node.key_segments[i] = n.key_segments[i]
             /\ out.node.children[i] = n.children[i]
        /\ Len(f0) <= Len(k)
        /\ get_segment(out.node, 0).seg = SubSeq(k, 1, Len(f0))
        /\ c0.tag = "Node"
        /\ c0.node.children_count = 1
        /\ get_segment(c0.node, 0).seg = f0
        /\ c0.node.children[0] = n.children[0]
        /\ \A i \in SlotIdx \ {0} : c0.node.children[i] = NoChild
        /\ StrictlyAscending(out.node)
        /\ out.remaining_key = SubSeq(k, Len(f0) + 1, Len(k))

\* the values held by the Value children of the tree below n
RECURSIVE StoredValues(_)
StoredValues(n) ==
  UNION {LET c == n.children[i]
         IN  IF c.tag = "Value" THEN {c.value} ELSE StoredValues(c.node) :
         i \in {j \in SlotIdx : n.children[j].tag # "None"}}

\* C19: no put removes a stored Value (or the node that holds it) from the
\* tree, except the Value that a put of the same key replaces: the value of
\* every completed put whose key was not put again is still in the tree,
\* also after more than R puts that resolve Smallest in the same node.
C19_NothingRemoved ==
  \A i \in 1..Len(hist) :
    ( /\ IsPut(hist[i]) /\ hist[i].result = Unit
      /\ \A j \in (i + 1)..Len(hist) : ~(IsPut(hist[j]) /\ hist[j].key = hist[i].key) )
    => hist[i].value \in StoredValues(root)

\* C20: get(k) leaves the whole tree unchanged, and two gets of the same key
\* with no put in between return the same result.
C20_GetLeavesTreeUnchanged ==
  /\ [][ (Len(hist') = Len(hist) + 1 /\ IsGet(hist'[Len(hist')]))
           => (root' = root /\ poisoned' = poisoned) ]_vars
  /\ [](\A i \in 2..Len(hist) :
          (IsGet(hist[i]) /\ IsGet(hist[i - 1]) /\ hist[i].key = hist[i - 1].key)
          => hist[i].result = hist[i - 1].result)

\* C20 witness: after a completed put, two gets of one key followed one
\* another.
C20_Witness ==
  /\ Len(hist) >= 3
  /\ IsPut(hist[1]) /\ hist[1].result = Unit
  /\ IsGet(hist[2]) /\ IsGet(hist[3]) /\ hist[2].key = hist[3].key

\* C21: through any sequence of puts, no iteration of put calls insert_child
\* on a node with count = R ("Cannot insert into full node" never fires), and
\* every slot that resolve_child returns as ExactMatch or InDomainOf holds a
\* child (the "must be Some" expectations of put and get never fail).
C21_NoStructuralFault ==
  probe.fn \in {"get", "put"} => probe.fault \notin {"full_node", "child_none"}

\* C21 witness: a put into a tree that two puts built from the empty tree
\* called insert_child and returned.
C21_Witness ==
  /\ probe.fn = "put" /\ probe.done /\ probe.result = Unit
  /\ probe.tree0 \in PutTrees(MaxStepPuts) \ PutTrees(1)
  /\ probe.tree # probe.tree0

\* the number of levels of nodes below and including node
RECURSIVE Height(_)
Height(node) ==
  1 + SetMin({0} \cup {0 - Height(node.children[i].node) :
                         i \in {j \in SlotIdx : node.children[j].tag = "Node"}}) * (0 - 1)

\* what every iteration of a descent makes smaller: the levels below the
\* current node, counted twice, and one more while the node is full
Variant(node) ==
  2 * Height(node) + (IF node.children_count < TREE_RADIX THEN 0 ELSE 1)

\* an iteration of the binary search that does not end it narrows the range
SearchNarrows ==
  (probe.fn = "search" /\ ~probe.done /\ probe'.fn = "search" /\ ~probe'.done)
  => /\ probe.left <= probe'.left /\ probe'.right <= probe.right
     /\ probe'.left <= probe'.right
     /\ probe'.right - probe'.left < probe.right - probe.left

\* an iteration of a descent that neither returns nor aborts moves to a
\* child node of the current node, from which less is left to do
DescentDeepens ==
  (probe.fn \in {"get", "put"} /\ ~probe.done /\ probe' # probe /\ ~probe'.done)
  => /\ Len(probe'.path) = Len(probe.path) + 1
     /\ SubSeq(probe'.path, 1, Len(probe.path)) = probe.path
     /\ NodeAt(probe'.tree, probe.path).children[probe'.path[Len(probe'.path)]].tag = "Node"
     /\ Variant(NodeAt(probe'.tree, probe'.path)) < Variant(NodeAt(probe.tree, probe.path))

\* the iterations a loop has made are bounded by what its input allows: the
\* slots in use (and the last evaluation of the condition) for the binary
\* search, the variant of the root for a descent
IterationsBounded ==
  /\ probe.fn = "search" => probe.iter <= probe.node.children_count + 1
  /\ probe.fn \in {"get", "put"} => probe.iter <= Variant(probe.tree0)
  /\ probe.fn \in {"search", "get", "put"} => probe.iter < MaxIter

\* C22: every get and every put terminates, on every tree and for every
\* key: each iteration of the binary search of resolve_child that does not
\* end it strictly narrows the range, each iteration of the descent returns,
\* aborts or moves to a strictly deeper node (also after a pushdown-split
\* and after an InDomainOf that consumes no key bytes), so that no loop
\* makes more iterations than its input allows.
C22_LoopsTerminate ==
  /\ [][SearchNarrows /\ DescentDeepens]_vars
  /\ []IterationsBounded

\* C22 witness: a put into a full node ended after the pushdown-split and
\* two more iterations in deeper nodes.
C22_Witness ==
  /\ probe.fn = "put" /\ probe.done /\ probe.result = Unit
  /\ probe.tree0.children_count = TREE_RADIX
  /\ probe.tree.children[0] # probe.tree0.children[0]
  /\ Len(probe.path) >= 2

====
